---- MODULE Spec2Model ----
(***************************************************************************)
(* Model of VG_exam_programming_embedded_systems.cpp: one producer thread  *)
(* and several consumer ("dealer") threads sharing a Warehouse, a circular *)
(* buffer of Vehicle pointers guarded by one std::mutex (mu) and one       *)
(* std::condition_variable (cond).                                         *)
(*                                                                         *)
(* Every statement of addVehicle / removeVehicle is one step of the thread *)
(* that executes it, so all interleavings the mutex allows are explored.   *)
(* cond.wait(locker, pred) is "while (!pred()) wait(locker)": the          *)
(* predicate is evaluated with mu held; wait releases mu and enters the    *)
(* wait set atomically; a thread leaves the wait set by notify_all or by a *)
(* spurious wake-up (permitted by the C++ standard) and then has to take   *)
(* mu again before it re-evaluates the predicate.                          *)
(***************************************************************************)
EXTENDS Integers, Sequences, FiniteSets

\* ---------------------------------------------------------------- bounds
\* Largest value of the CAPACITY macro explored (the macro is set with -D).
MaxCapacity == 2
\* Number of consumer threads explored (main() starts dealers 1..numConsumers).
NumConsumers == 2
\* The producer's endless loop is cut after this many vehicles.
MaxVehicles == 2

\* ------------------------------------------------------ program constants
\* producer(warehouse, 1001): the first serial number.
startID == 1001
\* The null pointer stored in empty slots.
nullptr == 0

Producer == 0
Consumers == 1..NumConsumers
Threads == {Producer} \cup Consumers
\* Value of a std::mutex that no thread owns.
NoThread == -1
\* Heap addresses handed out by operator new (one fresh address per vehicle).
Addresses == 1..MaxVehicles
Pointers == Addresses \cup {nullptr}
CapacityValues == 1..MaxCapacity

VARIABLES
    capacity,     \* value of the CAPACITY macro for this build
    vehicles,     \* Warehouse::vehicles, slot index -> pointer
    count,        \* Warehouse::count
    front,        \* Warehouse::front
    rear,         \* Warehouse::rear
    mu,           \* Warehouse::mu: owning thread or NoThread
    waitSet,      \* threads blocked inside cond.wait and not yet woken
    cout_mutex,   \* ::cout_mutex: owning thread or NoThread
    pc,           \* position of every thread
    id,           \* producer's local id (next serial number)
    arg,          \* addVehicle's parameter `vehicle` in the producer's call
    vehicle,      \* per consumer: local `vehicle` of removeVehicle / consumer
    heap,         \* address -> object stored there
    inserted,     \* history: pointers in the order line 88 stored them
    removed,      \* history: pointers in the order line 99 took them
    addSince,     \* history: see CallAdd
    remSince,     \* history: see CallRemove
    cancel,       \* environment: a shutdown of the program has been requested
    created       \* history: the IDs given to the constructors, in order

vars == <<capacity, vehicles, count, front, rear, mu, waitSet, cout_mutex, pc,
          id, arg, vehicle, heap, inserted, removed, addSince, remSince,
          cancel, created>>

warehouse == <<vehicles, count, front, rear>>
\* The history variables observe the run; no action reads them in a guard.
history == <<inserted, removed, addSince, remSince>>

\* Objects on the heap.
Unallocated == [state |-> "unallocated"]
Deleted == [state |-> "deleted"]
Live(i, model, type) == [state |-> "live", ID |-> i, model |-> model, type |-> type]

\* Faulty variant: no wrap-around.
NextIndexNoWrap(i) == i + 1
\* (index + 1) % CAPACITY, lines 89 and 101.
NextIndex(i) == (i + 1) % capacity

\* Faulty variant: off by one: a full warehouse still accepts.
NotFullOffByOne == count <= capacity
\* Predicate of cond.wait in addVehicle, line 87.
NotFull == count < capacity
\* Faulty variant: off by one: an empty warehouse still delivers.
NotEmptyOffByOne == count >= 0
\* Predicate of cond.wait in removeVehicle, line 98.
NotEmpty == count > 0

\* ------------------------------------------------------------------ Init
\* Warehouse::Warehouse (lines 74-76) and main (lines 148-159).
Init ==
    /\ capacity \in CapacityValues
    /\ vehicles = [i \in 0..(capacity - 1) |-> nullptr]
    /\ count = 0
    /\ front = 0
    /\ rear = 0
    /\ mu = NoThread
    /\ waitSet = {}
    /\ cout_mutex = NoThread
    /\ pc = [t \in Threads |-> IF t = Producer THEN "p_new" ELSE "c_call"]
    /\ id = startID
    /\ arg = nullptr
    /\ vehicle = [c \in Consumers |-> nullptr]
    /\ heap = [a \in Addresses |-> Unallocated]
    /\ inserted = <<>>
    /\ removed = <<>>
    /\ addSince = "open"
    /\ remSince = [c \in Consumers |-> "open"]
    /\ cancel = FALSE
    /\ created = <<>>

Goto(t, label) == pc' = [pc EXCEPT ![t] = label]

\* --------------------------------------------------------------- producer
\* Faulty variant: only new Car(id++, ...) increments id, new Truck(id, ...) does not.
CallAddTruckKeepsId ==
    /\ pc[Producer] = "p_new"
    /\ id < startID + MaxVehicles
    /\ \E kind \in {<<"SAAB", "Car">>, <<"VolvoTruck", "Truck">>} :
          LET a == (id - startID) + 1 IN
          /\ heap' = [heap EXCEPT ![a] = Live(id, kind[1], kind[2])]
          /\ arg' = a
    /\ id' = IF heap'[(id - startID) + 1].type = "Car" THEN id + 1 ELSE id
    /\ created' = Append(created, id)
    /\ addSince' = IF count = capacity THEN "pending" ELSE "open"
    /\ Goto(Producer, "a_lock")
    /\ UNCHANGED <<capacity, cancel, warehouse, mu, waitSet, cout_mutex, vehicle,
                   inserted, removed, remSince>>

\* Lines 125-129: new Car(id++, "SAAB") or new Truck(id++, "VolvoTruck"),
\* then the call of addVehicle.  addSince is "pending" from the entry of a call
\* made while count == CAPACITY until a removal leaves its locked region
\* (RemoveUnlock), "served" from then on, and "open" outside such a call.
CallAdd ==
    /\ pc[Producer] = "p_new"
    /\ id < startID + MaxVehicles
    /\ \E kind \in {<<"SAAB", "Car">>, <<"VolvoTruck", "Truck">>} :
          LET a == (id - startID) + 1 IN
          /\ heap' = [heap EXCEPT ![a] = Live(id, kind[1], kind[2])]
          /\ arg' = a
    /\ id' = id + 1
    /\ created' = Append(created, id)
    /\ addSince' = IF count = capacity THEN "pending" ELSE "open"
    /\ Goto(Producer, "a_lock")
    /\ UNCHANGED <<capacity, cancel, warehouse, mu, waitSet, cout_mutex, vehicle,
                   inserted, removed, remSince>>

\* Line 86: std::unique_lock<std::mutex> locker(mu).
AddLock ==
    /\ pc[Producer] = "a_lock"
    /\ mu = NoThread
    /\ mu' = Producer
    /\ Goto(Producer, "a_wait")
    /\ UNCHANGED <<capacity, cancel, created, warehouse, waitSet, cout_mutex, id, arg, vehicle,
                   heap, history>>

\* Faulty variant: the wait is missing: the producer goes on whatever count is.
AddWaitPassAlways ==
    /\ pc[Producer] = "a_wait"
    /\ Goto(Producer, "a_store")
    /\ UNCHANGED <<capacity, cancel, created, warehouse, mu, waitSet, cout_mutex, id, arg,
                   vehicle, heap, history>>

\* Line 87: the predicate holds, cond.wait returns with mu held.
AddWaitPass ==
    /\ pc[Producer] = "a_wait"
    /\ NotFull
    /\ Goto(Producer, "a_store")
    /\ UNCHANGED <<capacity, cancel, created, warehouse, mu, waitSet, cout_mutex, id, arg,
                   vehicle, heap, history>>

\* Line 87: the predicate fails, the thread releases mu and blocks.
AddWaitBlock ==
    /\ pc[Producer] = "a_wait"
    /\ ~NotFull
    /\ mu' = NoThread
    /\ waitSet' = waitSet \cup {Producer}
    /\ Goto(Producer, "a_waiting")
    /\ UNCHANGED <<capacity, cancel, created, warehouse, cout_mutex, id, arg, vehicle, heap,
                   history>>

\* Line 87: a woken thread takes mu again and re-evaluates the predicate.
AddWake ==
    /\ pc[Producer] = "a_waiting"
    /\ Producer \notin waitSet
    /\ mu = NoThread
    /\ mu' = Producer
    /\ Goto(Producer, "a_wait")
    /\ UNCHANGED <<capacity, cancel, created, warehouse, waitSet, cout_mutex, id, arg, vehicle,
                   heap, history>>

\* Line 88: vehicles[rear] = vehicle.
AddStore ==
    /\ pc[Producer] = "a_store"
    /\ vehicles' = [vehicles EXCEPT ![rear] = arg]
    /\ inserted' = Append(inserted, arg)
    /\ Goto(Producer, "a_rear")
    /\ UNCHANGED <<capacity, cancel, created, count, front, rear, mu, waitSet, cout_mutex, id,
                   arg, vehicle, heap, removed, addSince, remSince>>

\* Line 89: rear = (rear + 1) % CAPACITY.
AddRear ==
    /\ pc[Producer] = "a_rear"
    /\ rear' = NextIndex(rear)
    /\ Goto(Producer, "a_count")
    /\ UNCHANGED <<capacity, cancel, created, vehicles, count, front, mu, waitSet, cout_mutex,
                   id, arg, vehicle, heap, history>>

\* Line 90: count++.
AddCount ==
    /\ pc[Producer] = "a_count"
    /\ count' = count + 1
    /\ Goto(Producer, "a_unlock")
    /\ UNCHANGED <<capacity, cancel, created, vehicles, front, rear, mu, waitSet, cout_mutex,
                   id, arg, vehicle, heap, history>>

\* Line 91: locker.unlock().
AddUnlock ==
    /\ pc[Producer] = "a_unlock"
    /\ mu' = NoThread
    /\ remSince' = [c \in Consumers |->
                      IF remSince[c] = "pending" THEN "served" ELSE remSince[c]]
    /\ Goto(Producer, "a_notify")
    /\ UNCHANGED <<capacity, cancel, created, warehouse, waitSet, cout_mutex, id, arg, vehicle,
                   heap, inserted, removed, addSince>>

\* Faulty variant: no notification.
AddNotifyNone ==
    /\ pc[Producer] = "a_notify"
    /\ arg' = nullptr
    /\ addSince' = "open"
    /\ Goto(Producer, "p_new")
    /\ UNCHANGED <<capacity, cancel, created, warehouse, mu, waitSet, cout_mutex, id, vehicle,
                   heap, inserted, removed, remSince>>

\* Faulty variant: notify_one, a single waiter (if any) is woken.
AddNotifyOne ==
    /\ pc[Producer] = "a_notify"
    /\ \/ waitSet = {} /\ waitSet' = waitSet
       \/ \E t \in waitSet : waitSet' = waitSet \ {t}
    /\ arg' = nullptr
    /\ addSince' = "open"
    /\ Goto(Producer, "p_new")
    /\ UNCHANGED <<capacity, cancel, created, warehouse, mu, cout_mutex, id,
                   vehicle, heap, inserted, removed, remSince>>

\* Line 92: cond.notify_all(); addVehicle returns and the producer sleeps
\* (line 131) before the next round of its loop.
AddNotify ==
    /\ pc[Producer] = "a_notify"
    /\ waitSet' = {}
    /\ arg' = nullptr
    /\ addSince' = "open"
    /\ Goto(Producer, "p_new")
    /\ UNCHANGED <<capacity, cancel, created, warehouse, mu, cout_mutex, id, vehicle, heap,
                   inserted, removed, remSince>>

\* --------------------------------------------------------------- consumer
\* Line 138: the call of removeVehicle.  remSince[c] is "pending" from the entry
\* of a call made while count == 0 until an insertion leaves its locked region
\* (AddUnlock), "served" from then on, and "open" outside such a call.
CallRemove(c) ==
    /\ pc[c] = "c_call"
    /\ remSince' = [remSince EXCEPT ![c] = IF count = 0 THEN "pending" ELSE "open"]
    /\ Goto(c, "r_lock")
    /\ UNCHANGED <<capacity, cancel, created, warehouse, mu, waitSet, cout_mutex, id, arg,
                   vehicle, heap, inserted, removed, addSince>>

\* Line 97: std::unique_lock<std::mutex> locker(mu).
RemoveLock(c) ==
    /\ pc[c] = "r_lock"
    /\ mu = NoThread
    /\ mu' = c
    /\ Goto(c, "r_wait")
    /\ UNCHANGED <<capacity, cancel, created, warehouse, waitSet, cout_mutex, id, arg, vehicle,
                   heap, history>>

\* Faulty variant: the wait is missing, the consumer goes on whatever count is.
RemoveWaitPassAlways(c) ==
    /\ pc[c] \in {"r_wait", "r_recheck"}
    /\ Goto(c, "r_take")
    /\ UNCHANGED <<capacity, cancel, created, warehouse, mu, waitSet,
                   cout_mutex, id, arg, vehicle, heap, history>>

\* Line 98: the predicate holds, cond.wait returns with mu held.
RemoveWaitPass(c) ==
    /\ pc[c] \in {"r_wait", "r_recheck"}
    /\ NotEmpty
    /\ Goto(c, "r_take")
    /\ UNCHANGED <<capacity, cancel, created, warehouse, mu, waitSet, cout_mutex, id, arg,
                   vehicle, heap, history>>

\* Line 98: the predicate fails, the thread releases mu and blocks.
RemoveWaitBlock(c) ==
    /\ pc[c] \in {"r_wait", "r_recheck"}
    /\ ~NotEmpty
    /\ mu' = NoThread
    /\ waitSet' = waitSet \cup {c}
    /\ Goto(c, "r_waiting")
    /\ UNCHANGED <<capacity, cancel, created, warehouse, cout_mutex, id, arg, vehicle, heap,
                   history>>

\* Faulty variant: `if` instead of `while`: the woken thread does not look at count again.
RemoveWakeNoRecheck(c) ==
    /\ pc[c] = "r_waiting"
    /\ c \notin waitSet
    /\ mu = NoThread
    /\ mu' = c
    /\ Goto(c, "r_take")
    /\ UNCHANGED <<capacity, cancel, created, warehouse, waitSet, cout_mutex, id, arg, vehicle,
                   heap, history>>

\* Line 98: a woken thread takes mu again and re-evaluates the predicate.
RemoveWake(c) ==
    /\ pc[c] = "r_waiting"
    /\ c \notin waitSet
    /\ mu = NoThread
    /\ mu' = c
    /\ Goto(c, "r_recheck")
    /\ UNCHANGED <<capacity, cancel, created, warehouse, waitSet, cout_mutex, id, arg, vehicle,
                   heap, history>>

\* Faulty variant: the newest slot instead of the oldest.
RemoveTakeNewest(c) ==
    /\ pc[c] = "r_take"
    /\ LET last == (rear + capacity - 1) % capacity IN
          /\ vehicle' = [vehicle EXCEPT ![c] = vehicles[last]]
          /\ removed' = Append(removed, vehicles[last])
    /\ Goto(c, "r_clear")
    /\ UNCHANGED <<capacity, cancel, created, warehouse, mu, waitSet, cout_mutex, id, arg, heap,
                   inserted, addSince, remSince>>

\* Line 99: Vehicle *vehicle = vehicles[front].
RemoveTake(c) ==
    /\ pc[c] = "r_take"
    /\ vehicle' = [vehicle EXCEPT ![c] = vehicles[front]]
    /\ removed' = Append(removed, vehicles[front])
    /\ Goto(c, "r_clear")
    /\ UNCHANGED <<capacity, cancel, created, warehouse, mu, waitSet, cout_mutex, id, arg, heap,
                   inserted, addSince, remSince>>

\* Faulty variant: the slot is left as it is.
RemoveClearSkipped(c) ==
    /\ pc[c] = "r_clear"
    /\ Goto(c, "r_front")
    /\ UNCHANGED <<capacity, cancel, created, warehouse, mu, waitSet, cout_mutex, id, arg,
                   vehicle, heap, history>>

\* Line 100: vehicles[front] = nullptr.
RemoveClear(c) ==
    /\ pc[c] = "r_clear"
    /\ vehicles' = [vehicles EXCEPT ![front] = nullptr]
    /\ Goto(c, "r_front")
    /\ UNCHANGED <<capacity, cancel, created, count, front, rear, mu, waitSet, cout_mutex, id,
                   arg, vehicle, heap, history>>

\* Faulty variant: front is left as it is.
RemoveFrontSkipped(c) ==
    /\ pc[c] = "r_front"
    /\ Goto(c, "r_count")
    /\ UNCHANGED <<capacity, cancel, created, warehouse, mu, waitSet, cout_mutex, id, arg,
                   vehicle, heap, history>>

\* Line 101: front = (front + 1) % CAPACITY.
RemoveFront(c) ==
    /\ pc[c] = "r_front"
    /\ front' = NextIndex(front)
    /\ Goto(c, "r_count")
    /\ UNCHANGED <<capacity, cancel, created, vehicles, count, rear, mu, waitSet, cout_mutex,
                   id, arg, vehicle, heap, history>>

\* Line 102: count--.
RemoveCount(c) ==
    /\ pc[c] = "r_count"
    /\ count' = count - 1
    /\ Goto(c, "r_unlock")
    /\ UNCHANGED <<capacity, cancel, created, vehicles, front, rear, mu, waitSet, cout_mutex,
                   id, arg, vehicle, heap, history>>

\* Faulty variant: the mutex is kept until the consumer's loop comes round.
RemoveUnlockSkipped(c) ==
    /\ pc[c] = "r_unlock"
    /\ addSince' = IF addSince = "pending" THEN "served" ELSE addSince
    /\ Goto(c, "r_notify")
    /\ UNCHANGED <<capacity, cancel, created, warehouse, mu, waitSet, cout_mutex, id,
                   arg, vehicle, heap, inserted, removed, remSince>>

\* Line 103: locker.unlock().
RemoveUnlock(c) ==
    /\ pc[c] = "r_unlock"
    /\ mu' = NoThread
    /\ addSince' = IF addSince = "pending" THEN "served" ELSE addSince
    /\ Goto(c, "r_notify")
    /\ UNCHANGED <<capacity, cancel, created, warehouse, waitSet, cout_mutex, id, arg, vehicle,
                   heap, inserted, removed, remSince>>

\* Faulty variant: no notification.
RemoveNotifyNone(c) ==
    /\ pc[c] = "r_notify"
    /\ remSince' = [remSince EXCEPT ![c] = "open"]
    /\ Goto(c, "c_header")
    /\ UNCHANGED <<capacity, cancel, created, warehouse, mu, waitSet, cout_mutex, id, arg,
                   vehicle, heap, inserted, removed, addSince>>

\* Lines 104-105: cond.notify_all(); return vehicle.
RemoveNotify(c) ==
    /\ pc[c] = "r_notify"
    /\ waitSet' = {}
    /\ remSince' = [remSince EXCEPT ![c] = "open"]
    /\ Goto(c, "c_header")
    /\ UNCHANGED <<capacity, cancel, created, warehouse, mu, cout_mutex, id, arg, vehicle, heap,
                   inserted, removed, addSince>>

\* Lines 139-140: the "Dealer" header is written to std::cout.
PrintHeader(c) ==
    /\ pc[c] = "c_header"
    /\ Goto(c, "c_print")
    /\ UNCHANGED <<capacity, cancel, created, warehouse, mu, waitSet, cout_mutex, id, arg,
                   vehicle, heap, history>>

\* Lines 141 and 42 / 62: printProperties takes cout_mutex.
PrintLock(c) ==
    /\ pc[c] = "c_print"
    /\ cout_mutex = NoThread
    /\ cout_mutex' = c
    /\ Goto(c, "c_printing")
    /\ UNCHANGED <<capacity, cancel, created, warehouse, mu, waitSet, id, arg, vehicle, heap,
                   history>>

\* Lines 43-45 / 63-65: the properties are written, the lock_guard is released.
PrintProperties(c) ==
    /\ pc[c] = "c_printing"
    /\ cout_mutex' = NoThread
    /\ Goto(c, "c_delete")
    /\ UNCHANGED <<capacity, cancel, created, warehouse, mu, waitSet, id, arg, vehicle, heap,
                   history>>

\* Lines 142-143: delete vehicle; the consumer sleeps and loops.
DeleteVehicle(c) ==
    /\ pc[c] = "c_delete"
    /\ heap' = IF vehicle[c] \in Addresses
                 THEN [heap EXCEPT ![vehicle[c]] = Deleted]
                 ELSE heap
    /\ vehicle' = [vehicle EXCEPT ![c] = nullptr]
    /\ Goto(c, "c_call")
    /\ UNCHANGED <<capacity, cancel, created, warehouse, mu, waitSet, cout_mutex, id, arg,
                   history>>

\* ------------------------------------------------------ condition variable
\* A thread blocked in cond.wait may wake without a notification.
SpuriousWake(t) ==
    /\ t \in waitSet
    /\ waitSet' = waitSet \ {t}
    /\ UNCHANGED <<capacity, cancel, created, warehouse, mu, cout_mutex, pc, id, arg, vehicle,
                   heap, history>>

ProducerStep ==
    \/ CallAdd
    \/ AddLock
    \/ AddWaitPass
    \/ AddWaitBlock
    \/ AddWake
    \/ AddStore
    \/ AddRear
    \/ AddCount
    \/ AddUnlock
    \/ AddNotify

ConsumerStep(c) ==
    \/ CallRemove(c)
    \/ RemoveLock(c)
    \/ RemoveWaitPass(c)
    \/ RemoveWaitBlock(c)
    \/ RemoveWake(c)
    \/ RemoveTake(c)
    \/ RemoveClear(c)
    \/ RemoveFront(c)
    \/ RemoveCount(c)
    \/ RemoveUnlock(c)
    \/ RemoveNotify(c)
    \/ PrintHeader(c)
    \/ PrintLock(c)
    \/ PrintProperties(c)
    \/ DeleteVehicle(c)

Next ==
    \/ ProducerStep
    \/ \E c \in Consumers : ConsumerStep(c)
    \/ \E t \in Threads : SpuriousWake(t)

Spec == Init /\ [][Next]_vars

\* Builds with any CAPACITY, valid or not (-DCAPACITY=0, -DCAPACITY=-1).
\* The constructor (lines 74-76) does not look at CAPACITY.  With CAPACITY = 0
\* vehicles.resize(0, nullptr) succeeds and main starts the threads.  With
\* CAPACITY < 0 the int converts to a size_type above max_size(), resize
\* throws std::length_error, main (line 149) does not catch it and the
\* process terminates before any thread is created.
AnyCapacityValues == (0 - 1)..MaxCapacity
InitAnyCapacity ==
    /\ capacity \in AnyCapacityValues
    /\ vehicles = [i \in 0..(capacity - 1) |-> nullptr]
    /\ count = 0
    /\ front = 0
    /\ rear = 0
    /\ mu = NoThread
    /\ waitSet = {}
    /\ cout_mutex = NoThread
    /\ pc = [t \in Threads |->
               IF capacity < 0 THEN "terminated"
               ELSE IF t = Producer THEN "p_new" ELSE "c_call"]
    /\ id = startID
    /\ arg = nullptr
    /\ vehicle = [c \in Consumers |-> nullptr]
    /\ heap = [a \in Addresses |-> Unallocated]
    /\ inserted = <<>>
    /\ removed = <<>>
    /\ addSince = "open"
    /\ remSince = [c \in Consumers |-> "open"]
    /\ cancel = FALSE
    /\ created = <<>>

SpecAnyCapacity == InitAnyCapacity /\ [][Next]_vars

\* The environment asks the program to shut down.  Nothing in the source
\* reads such a request: the loops of producer (line 125) and consumer
\* (line 137) are while (true), and the predicates of the two waits (lines
\* 87 and 98) look at count only.  The request therefore changes nothing but
\* the fact that it was made.
RequestCancel ==
    /\ ~cancel
    /\ cancel' = TRUE
    /\ UNCHANGED <<capacity, created, warehouse, mu, waitSet, cout_mutex, pc, id, arg,
                   vehicle, heap, history>>

NextCancel ==
    \/ Next
    \/ RequestCancel

SpecCancel == Init /\ [][NextCancel]_vars

\* Fair scheduling: a thread that is again and again able to take a step of
\* its own (it is not in the wait set, and the mutex it asks for is free)
\* eventually takes one.  Strong fairness is what lets a thread that asks
\* for mu get it although other threads lock and unlock mu in between.
\* Spurious wake-ups are possible but never promised.
Fairness ==
    /\ SF_vars(ProducerStep)
    /\ \A c \in Consumers : SF_vars(ConsumerStep(c))

FairSpec == Spec /\ Fairness

\* ----------------------------------------------------------------- claims
Slots == 0..(capacity - 1)
Range(q) == {q[i] : i \in 1..Len(q)}
IsPrefix(p, q) == Len(p) <= Len(q) /\ \A i \in 1..Len(p) : p[i] = q[i]
NoRepeats(q) == \A i, j \in 1..Len(q) : q[i] = q[j] => i = j
AddPastWait == {"a_store", "a_rear", "a_count", "a_unlock", "a_notify"}
RemovePastWait == {"r_take", "r_clear", "r_front", "r_count", "r_unlock",
                   "r_notify"}
HoldsVehicle == {"r_clear", "r_front", "r_count", "r_unlock", "r_notify",
                 "c_header", "c_print", "c_printing", "c_delete"}

\* C1: in every reachable state, under every interleaving of the producer's
\* addVehicle and the consumers' removeVehicle, 0 <= count <= CAPACITY.
C1_CountInRange == 0 <= count /\ count <= capacity
\* The warehouse is full after at least one removal has happened.
C1_Witness == count = capacity /\ Len(removed) > 0 /\ Len(inserted) > capacity

\* C2: FIFO.  The sequence of vehicles taken by removeVehicle (in the order of
\* the takes inside the locked region) is always a prefix of the sequence in
\* which addVehicle stored them.
C2_Fifo == IsPrefix(removed, inserted)
\* Two consumers hold one vehicle each, taken while a second one was queued.
C2_Witness ==
    /\ Len(removed) >= 2
    /\ \E c1, c2 \in Consumers :
          /\ c1 # c2
          /\ vehicle[c1] = removed[1]
          /\ vehicle[c2] = removed[2]

\* C3: no loss, no duplication.  Whenever no thread is inside the locked
\* region, every inserted vehicle is either queued in exactly one slot or was
\* taken by exactly one removal (never both), nothing is queued or taken
\* that was not inserted, and inserted = removed + count.  No two consumers
\* ever hold the same vehicle.
C3_NoLossNoDup ==
    /\ mu = NoThread =>
          /\ Len(inserted) = Len(removed) + count
          /\ \A i \in 1..Len(inserted) :
                Cardinality({s \in Slots : vehicles[s] = inserted[i]})
                  + Cardinality({j \in 1..Len(removed) : removed[j] = inserted[i]})
                  = 1
          /\ \A s \in Slots : vehicles[s] # nullptr => vehicles[s] \in Range(inserted)
          /\ Range(removed) \subseteq Range(inserted)
          /\ NoRepeats(inserted)
    /\ \A c1, c2 \in Consumers :
          (pc[c1] \in HoldsVehicle /\ pc[c2] \in HoldsVehicle /\ c1 # c2)
            => vehicle[c1] # vehicle[c2]
\* One vehicle is queued, another is in a consumer's hands, nobody holds the
\* lock.
C3_Witness ==
    /\ mu = NoThread
    /\ count > 0
    /\ Len(removed) > 0
    /\ \E c \in Consumers : pc[c] = "c_header" /\ vehicle[c] = removed[Len(removed)]

\* C4: an addVehicle call entered while count == CAPACITY is not past its
\* wait (it has neither stored its item nor returned) before some removal
\* has left its locked region; with no removal at all, at most CAPACITY
\* vehicles are ever stored.
C4_AddBlocksWhileFull ==
    /\ pc[Producer] \in AddPastWait => addSince # "pending"
    /\ Len(removed) = 0 => Len(inserted) <= capacity
\* The producer entered on a full warehouse and is now storing its item.
C4_Witness == pc[Producer] = "a_store" /\ addSince = "served"

\* C5: a removeVehicle call entered while count == 0 is not past its wait
\* before some insertion has left its locked region, and the pointer a
\* removal holds is one that an addVehicle call stored.
C5_RemoveBlocksWhileEmpty ==
    \A c \in Consumers :
      /\ pc[c] \in RemovePastWait => remSince[c] # "pending"
      /\ pc[c] \in HoldsVehicle =>
            vehicle[c] # nullptr /\ vehicle[c] \in Range(inserted)
\* A consumer entered on an empty warehouse and is now taking an item.
C5_Witness == \E c \in Consumers : pc[c] = "r_take" /\ remSince[c] = "served"

\* C6: whenever no thread is inside the locked region, exactly the count
\* slots from front up to (not including) rear, modulo CAPACITY, hold a
\* vehicle and all others hold nullptr, and rear = (front + count) % CAPACITY.
C6_RingShape ==
    mu = NoThread =>
      /\ rear = (front + count) % capacity
      /\ \A s \in Slots :
            vehicles[s] # nullptr <=> ((s - front) + capacity) % capacity < count
\* The occupied region wraps around the end of the array.
C6_Witness ==
    /\ mu = NoThread
    /\ count > 0
    /\ front > 0
    /\ rear <= front
    /\ Len(removed) > 0

\* C7: front and rear always lie in [0, CAPACITY); a step that changes rear
\* is line 89 of addVehicle and sets it to (rear + 1) % CAPACITY; a step that
\* changes front is line 101 of removeVehicle and sets it to
\* (front + 1) % CAPACITY.
C7_IndexSteps ==
    /\ [](front \in Slots /\ rear \in Slots)
    /\ [][/\ rear' # rear =>
              /\ pc[Producer] = "a_rear"
              /\ rear' = (rear + 1) % capacity
          /\ front' # front =>
              /\ \E c \in Consumers : pc[c] = "r_front" /\ pc'[c] = "r_count"
              /\ front' = (front + 1) % capacity]_vars
\* Both indices have gone once round a warehouse of more than one slot.
C7_Witness ==
    /\ capacity > 1
    /\ rear = 0
    /\ front = 0
    /\ Len(inserted) = capacity
    /\ Len(removed) = capacity
    /\ mu = NoThread

\* C8: a consumer that evaluates the predicate of line 98 with count == 0,
\* on entry or after being woken, blocks (again) instead of taking a slot;
\* hence no vehicle is taken twice, no two consumers hold the same vehicle,
\* no more vehicles are taken than were stored and count is never negative.
C8_OneWinner ==
    /\ [](/\ count >= 0
          /\ NoRepeats(removed)
          /\ Len(removed) <= Len(inserted)
          /\ \A c1, c2 \in Consumers :
                (vehicle[c1] # nullptr /\ c1 # c2) => vehicle[c1] # vehicle[c2])
    /\ [][\A c \in Consumers :
            (pc[c] \in {"r_wait", "r_recheck"} /\ count = 0 /\ pc'[c] # pc[c])
              => (pc'[c] = "r_waiting" /\ c \in waitSet' /\ mu' = NoThread)]_vars
\* One vehicle was ever inserted; one consumer has taken it and has not yet
\* notified anyone; another consumer, woken from its wait, re-evaluates the
\* predicate with count == 0.
C8_Witness ==
    \E c1, c2 \in Consumers :
      /\ c1 # c2
      /\ Len(inserted) = 1
      /\ pc[c1] = "r_notify"
      /\ vehicle[c1] = inserted[1]
      /\ pc[c2] = "r_recheck"
      /\ count = 0

\* C9: deadlock freedom.  While the producer's loop runs, some thread can
\* always take a step of its own (a spurious wake-up is not counted); the
\* threads are never all in the wait set.  Once the producer's loop has been
\* cut, the only state without a step is the empty warehouse with every
\* consumer waiting for a vehicle.
ProducerCut == pc[Producer] = "p_new" /\ id = startID + MaxVehicles
CanStep == ENABLED (ProducerStep \/ \E c \in Consumers : ConsumerStep(c))
C9_NoDeadlock ==
    /\ ~(\A t \in Threads : t \in waitSet)
    /\ ~ProducerCut => CanStep
    /\ (ProducerCut /\ ~CanStep) =>
          (count = 0 /\ \A c \in Consumers : c \in waitSet)
\* The producer sleeps on a full warehouse while no consumer is inside
\* removeVehicle's locked region.
C9_Witness ==
    /\ Producer \in waitSet
    /\ count = capacity
    /\ mu = NoThread
    /\ \A c \in Consumers : pc[c] \in {"c_header", "c_print", "c_printing", "c_delete", "c_call"}

\* C10: under fair scheduling every addVehicle call returns, every vehicle
\* stored in the warehouse is returned by some removeVehicle call, a consumer
\* in the wait set leaves it once a vehicle is queued, and the producer in
\* the wait set leaves it once a slot is free.
C10_Progress ==
    /\ (pc[Producer] = "a_lock") ~> (pc[Producer] = "p_new")
    /\ \A a \in Addresses :
          (\E s \in Slots : vehicles[s] = a)
            ~> (\E c \in Consumers : pc[c] = "c_header" /\ vehicle[c] = a)
    /\ \A c \in Consumers : (c \in waitSet /\ count > 0) ~> (c \notin waitSet)
    /\ (Producer \in waitSet /\ count < capacity) ~> (Producer \notin waitSet)
\* A consumer is still in the wait set although a vehicle has been queued:
\* the producer is about to notify.
C10_Witness ==
    \E c \in Consumers :
      /\ c \in waitSet
      /\ count > 0
      /\ pc[Producer] = "a_notify"

\* C11: with CAPACITY = 1 the warehouse is a single-slot handoff.  Stores
\* (line 88) and takes (line 99) strictly alternate, beginning with a store:
\* the number of stores exceeds the number of takes by 0 or 1, a store happens
\* only when they are equal and a take only when a store is ahead.  At most
\* one vehicle is queued, the takes are a prefix of the stores, and the
\* threads are never all in the wait set.
C11_SingleSlotHandoff ==
    /\ [](capacity = 1 =>
            /\ Len(inserted) - Len(removed) \in {0, 1}
            /\ count \in {0, 1}
            /\ Cardinality({s \in Slots : vehicles[s] # nullptr}) <= 1
            /\ IsPrefix(removed, inserted)
            /\ ~(\A t \in Threads : t \in waitSet))
    /\ [][capacity = 1 =>
            /\ inserted' # inserted => Len(inserted) = Len(removed)
            /\ removed' # removed => Len(inserted) = Len(removed) + 1]_vars
\* Two complete handoffs through the single slot.
C11_Witness ==
    /\ capacity = 1
    /\ Len(removed) = 2
    /\ removed = inserted

\* C12: a CAPACITY <= 0 is rejected or clamped at construction, before any
\* thread starts: no thread ever runs on a warehouse whose capacity is not
\* positive, and the producer never sleeps on a warehouse without slots.
C12_InvalidCapacityRejected ==
    /\ capacity <= 0 => \A t \in Threads : pc[t] = "terminated"
    /\ Producer \in waitSet => capacity >= 1

\* C13: there is a shutdown path.  The request for shutdown wakes every
\* thread blocked in a wait, and once it has been made no thread goes to
\* sleep at a suspension point (the waits of lines 87 and 98) any more.
C13_ShutdownPath ==
    [][/\ (~cancel /\ cancel') => waitSet' = {}
       /\ cancel => waitSet' \subseteq waitSet]_vars

\* C14: a consumer processes its vehicle (header, printProperties, delete)
\* only after removeVehicle has released mu: a consumer in its processing
\* phase never owns mu, so mu is either free or owned by a thread that is
\* itself inside addVehicle / removeVehicle.
Processing == {"c_header", "c_print", "c_printing", "c_delete"}
C14_ProcessOutsideLock ==
    \A c \in Consumers :
      pc[c] \in Processing =>
        /\ mu # c
        /\ mu # NoThread => pc[mu] \notin Processing
\* While one consumer prints, the producer is inside addVehicle's locked
\* region and the other consumer is calling removeVehicle.
C14_Witness ==
    \E c1, c2 \in Consumers :
      /\ pc[c1] = "c_printing"
      /\ pc[c2] = "r_lock"
      /\ mu = Producer
      /\ pc[Producer] = "a_store"

\* C15: single ownership.  Every live vehicle has exactly one owner: the
\* producer (it is the argument of an addVehicle call that has not stored it
\* yet), the warehouse (it occupies a slot) or one consumer (it is that
\* consumer's `vehicle`; during the one step between lines 99 and 100, inside
\* the locked region, the slot still counts as the owner).  A deleted vehicle
\* is referenced by no slot and by no consumer, the pointer the producer
\* stores at line 88 (the only use of addVehicle's parameter) is live, and a
\* consumer only ever deletes a live vehicle, so none is deleted twice.
ProducerOwns(a) == arg = a /\ a \notin Range(inserted)
SlotsOwning(a) == {s \in Slots : vehicles[s] = a}
ConsumersOwning(a) == {c \in Consumers : vehicle[c] = a /\ pc[c] # "r_clear"}
Owners(a) ==
    (IF ProducerOwns(a) THEN 1 ELSE 0)
      + Cardinality(SlotsOwning(a)) + Cardinality(ConsumersOwning(a))
C15_SingleOwner ==
    /\ \A a \in Addresses :
          /\ heap[a].state = "live" => Owners(a) = 1
          /\ heap[a] = Deleted =>
                /\ SlotsOwning(a) = {}
                /\ \A c \in Consumers : vehicle[c] # a
                /\ ~(pc[Producer] = "a_store" /\ arg = a)
          /\ heap[a] = Unallocated => Owners(a) = 0
    /\ \A c \in Consumers :
          pc[c] = "c_delete" =>
            vehicle[c] \in Addresses /\ heap[vehicle[c]].state = "live"
\* One vehicle has been deleted, the next one is queued and a consumer is
\* just taking it (slot and local both hold the pointer).
C15_Witness ==
    \E a, b \in Addresses, c \in Consumers :
      /\ heap[a] = Deleted
      /\ heap[b].state = "live"
      /\ pc[c] = "r_clear"
      /\ vehicle[c] = b
      /\ SlotsOwning(b) # {}

\* C16: every vehicle the producer creates has an ID greater than 1000 and no
\* two vehicles ever created share an ID: the i-th vehicle created has ID
\* 1000 + i, whether it is a Car or a Truck, and every live vehicle carries
\* one of the IDs handed out.
C16_UniqueIds ==
    /\ \A i \in 1..Len(created) : created[i] = 1000 + i
    /\ NoRepeats(created)
    /\ id = startID + Len(created)
    /\ \A a \in Addresses :
          heap[a].state = "live" =>
            /\ heap[a].ID > 1000
            /\ heap[a].ID = created[a]
            /\ heap[a].type \in {"Car", "Truck"}
            /\ \A b \in Addresses :
                  (heap[b].state = "live" /\ heap[b].ID = heap[a].ID) => a = b
\* A Truck and then a Car have been created and both are still alive.
C16_Witness ==
    /\ Len(created) = 2
    /\ heap[1].state = "live" /\ heap[1].type = "Truck"
    /\ heap[2].state = "live" /\ heap[2].type = "Car"

\* C17: the notification of a completed addVehicle (line 92) wakes exactly
\* the threads that sleep in removeVehicle's wait: when the producer is about
\* to notify, the wait set holds consumers only (the one producer is the
\* notifier itself), each of them asleep at line 98, and the notification
\* takes all of them, and nothing but them, out of the wait set.
SleepingInRemove == {c \in Consumers : c \in waitSet /\ pc[c] = "r_waiting"}
C17_AddWakesRemovers ==
    /\ [](pc[Producer] = "a_notify" =>
            /\ Producer \notin waitSet
            /\ waitSet = SleepingInRemove)
    /\ [][(pc[Producer] = "a_notify" /\ pc'[Producer] # "a_notify") =>
            /\ waitSet \ waitSet' = SleepingInRemove
            /\ waitSet' = {}
            /\ \A c \in SleepingInRemove : pc'[c] = "r_waiting"]_vars
\* The producer is about to notify while every consumer sleeps in
\* removeVehicle.
C17_Witness ==
    /\ pc[Producer] = "a_notify"
    /\ waitSet = Consumers
    /\ count = 1

\* C18: console output is thread-safe.  A consumer that is about to write to
\* std::cout (the header at lines 139-140, the properties at lines 43-44 or
\* 63-64) owns cout_mutex, and no consumer writes its header while another
\* consumer is between its header and the end of its properties.
C18_CoutGuarded ==
    /\ \A c \in Consumers :
          pc[c] \in {"c_header", "c_printing"} => cout_mutex = c
    /\ \A c1, c2 \in Consumers :
          (c1 # c2 /\ pc[c1] \in {"c_print", "c_printing"}) => pc[c2] # "c_header"

\* C19: every pointer removeVehicle returns is non-null and refers to a live
\* vehicle: from the return (line 105) up to and including `delete vehicle`
\* (line 142) the consumer's `vehicle` is the address of a vehicle that has
\* been created and not yet deleted.
C19_ReturnedVehicleLive ==
    \A c \in Consumers :
      pc[c] \in Processing =>
        /\ vehicle[c] # nullptr
        /\ vehicle[c] \in Addresses
        /\ heap[vehicle[c]].state = "live"
\* The second vehicle is about to be deleted after the first one has been.
C19_Witness ==
    \E c \in Consumers, a \in Addresses :
      /\ pc[c] = "c_delete"
      /\ Len(removed) = 2
      /\ vehicle[c] = removed[2]
      /\ heap[a] = Deleted

\* C20 (as claimed): the wait set of the shared condition variable never
\* holds the producer and a consumer at the same time.
C20_NeverBothWaiting ==
    ~(Producer \in waitSet /\ \E c \in Consumers : c \in waitSet)

\* C20 (amended): the wait set holds the producer and a consumer at the same
\* time only while a removeVehicle call has released mu (line 103) and not
\* yet executed its notify_all (line 104); that notify_all then empties the
\* wait set.  In such a state the warehouse is empty.
C20_BothWaitingOnlyBeforeNotify ==
    (Producer \in waitSet /\ \E c \in Consumers : c \in waitSet) =>
      /\ \E r \in Consumers : pc[r] = "r_notify"
      /\ count = 0
\* The producer went to sleep on the full warehouse; one consumer emptied it
\* and is about to notify; the other consumer found it empty and sleeps too.
C20_Witness ==
    \E r, c \in Consumers :
      /\ Producer \in waitSet
      /\ c \in waitSet
      /\ pc[r] = "r_notify"

====
